---- MODULE Spec2Model ----
(***************************************************************************)
(* Model of the karaoke player of lyrics-bro/main.py: the LRC parser of    *)
(* KaraokePlayer.load_lyrics and the polling loop of KaraokePlayer.play.   *)
(*                                                                         *)
(* Text is modelled as sequences of one-character strings, so that the     *)
(* parser's strip / find / slice / split / int steps are computed as the   *)
(* code computes them.  Times are kept in exact centiseconds: the code's   *)
(* float  minutes*60 + seconds + centiseconds/100.0  is the integer        *)
(* 6000*minutes + 100*seconds + centiseconds, and a clock reading of e     *)
(* seconds is the integer 100*e.                                           *)
(***************************************************************************)
EXTENDS Integers, Sequences, FiniteSets, TLC

(***************************************************************************)
(* Python string primitives used by load_lyrics                            *)
(***************************************************************************)

\* The characters str.strip() removes (the inputs only use the blank).
IsSpace(c) == c = " "

Digits == <<"0", "1", "2", "3", "4", "5", "6", "7", "8", "9">>

IsDigit(c) == \E i \in 1..Len(Digits) : Digits[i] = c

DigitValue(c) == (CHOOSE i \in 1..Len(Digits) : Digits[i] = c) - 1

\* s[i:j] of Python for 0 <= i, 0 <= j (0-based, j exclusive, clipped).
Slice(s, i, j) ==
    LET hi == IF j < Len(s) THEN j ELSE Len(s)
    IN  IF i >= hi THEN << >> ELSE SubSeq(s, i + 1, hi)

\* s[i:] of Python.
SliceFrom(s, i) == Slice(s, i, Len(s))

RECURSIVE LStrip(_)
LStrip(s) ==
    IF s = << >> THEN << >>
    ELSE IF IsSpace(Head(s)) THEN LStrip(Tail(s)) ELSE s

RECURSIVE RStrip(_)
RStrip(s) ==
    IF s = << >> THEN << >>
    ELSE IF IsSpace(s[Len(s)]) THEN RStrip(SubSeq(s, 1, Len(s) - 1)) ELSE s

\* str.strip()
Strip(s) == RStrip(LStrip(s))

\* c in s
Contains(s, c) == \E i \in 1..Len(s) : s[i] = c

\* s.find(c): the 0-based index of the first c, -1 when there is none.
Find(s, c) ==
    IF Contains(s, c)
    THEN (CHOOSE i \in 1..Len(s) : s[i] = c /\ \A k \in 1..(i - 1) : s[k] # c) - 1
    ELSE -1

\* s.split(sep) for a one-character separator: always at least one part.
RECURSIVE Split(_, _)
Split(s, sep) ==
    IF ~Contains(s, sep) THEN << s >>
    ELSE LET p == Find(s, sep)
         IN  << Slice(s, 0, p) >> \o Split(SliceFrom(s, p + 1), sep)

RECURSIVE DigitsValue(_)
DigitsValue(s) ==
    IF s = << >> THEN 0
    ELSE 10 * DigitsValue(SubSeq(s, 1, Len(s) - 1)) + DigitValue(s[Len(s)])

\* int(s): surrounding blanks are ignored, one sign is accepted, and what is
\* left must be one or more decimal digits; anything else raises ValueError.
PyInt(s) ==
    LET t    == Strip(s)
        sgn  == t # << >> /\ Head(t) \in {"-", "+"}
        body == IF sgn THEN Tail(t) ELSE t
        ok   == body # << >> /\ \A i \in 1..Len(body) : IsDigit(body[i])
    IN  IF ~ok THEN [ok |-> FALSE, val |-> 0]
        ELSE [ok |-> TRUE,
              val |-> IF sgn /\ Head(t) = "-" THEN 0 - DigitsValue(body)
                      ELSE DigitsValue(body)]

(***************************************************************************)
(* KaraokePlayer.load_lyrics: one line of the file                         *)
(***************************************************************************)

\* total_seconds = minutes * 60 + seconds + centiseconds / 100.0, in
\* centiseconds.
TotalSecondsMissingMinutes(minutes, seconds, centiseconds) ==
    100 * seconds + centiseconds

TotalSeconds(minutes, seconds, centiseconds) ==
    6000 * minutes + 100 * seconds + centiseconds

\* The try block of the loop body: the time of a timestamp, or a failure
\* (IndexError when there is no ':', ValueError from int) that drops the line.
ParseTime(timestamp) ==
    LET parts == Split(timestamp, ":")
        minutes == PyInt(parts[1])
    IN  IF ~minutes.ok \/ Len(parts) < 2 THEN [ok |-> FALSE, val |-> 0]
        ELSE LET sec_parts == Split(parts[2], ".")
                 seconds == PyInt(sec_parts[1])
                 centiseconds == IF Len(sec_parts) > 1 THEN PyInt(sec_parts[2])
                                 ELSE [ok |-> TRUE, val |-> 0]
             IN  IF ~seconds.ok \/ ~centiseconds.ok
                 THEN [ok |-> FALSE, val |-> 0]
                 ELSE [ok |-> TRUE,
                       val |-> TotalSeconds(minutes.val, seconds.val,
                                            centiseconds.val)]

\* A parser without "if not text: continue".
ParseLineKeepsEmptyText(raw) ==
    LET line == Strip(raw)
    IN  IF line = << >> \/ ~Contains(line, "]") THEN << >>
        ELSE LET bracket_pos == Find(line, "]")
                 timestamp == Slice(line, 1, bracket_pos)
                 text == Strip(SliceFrom(line, bracket_pos + 1))
                 t == ParseTime(timestamp)
             IN  IF ~t.ok THEN << >>
                 ELSE << [time |-> t.val, text |-> text, timestamp |-> timestamp] >>

\* The body of "for line in lines": the entries the line appends to
\* self.lyrics (none when the line is skipped, one when it is kept).
ParseLine(raw) ==
    LET line == Strip(raw)
    IN  IF line = << >> \/ ~Contains(line, "]") THEN << >>
        ELSE LET bracket_pos == Find(line, "]")
                 timestamp == Slice(line, 1, bracket_pos)
                 text == Strip(SliceFrom(line, bracket_pos + 1))
                 t == ParseTime(timestamp)
             IN  IF text = << >> \/ ~t.ok THEN << >>
                 ELSE << [time |-> t.val, text |-> text, timestamp |-> timestamp] >>

\* self.lyrics after the for loop, before the sort.
RECURSIVE ParseLines(_)
ParseLines(lines) ==
    IF lines = << >> THEN << >>
    ELSE ParseLines(SubSeq(lines, 1, Len(lines) - 1)) \o ParseLine(lines[Len(lines)])

(***************************************************************************)
(* self.lyrics.sort(key=lambda x: x['time']): list.sort is stable          *)
(***************************************************************************)

\* A sort that puts a line before the lines of equal time already placed.
InsertBeforeEqual(sorted, x) ==
    LET k == Cardinality({i \in 1..Len(sorted) : sorted[i].time < x.time})
    IN  SubSeq(sorted, 1, k) \o << x >> \o SubSeq(sorted, k + 1, Len(sorted))

\* x placed after every line whose time is at most x's.
InsertByTime(sorted, x) ==
    LET k == Cardinality({i \in 1..Len(sorted) : sorted[i].time <= x.time})
    IN  SubSeq(sorted, 1, k) \o << x >> \o SubSeq(sorted, k + 1, Len(sorted))

\* A load that leaves the lines in file order.
Unsorted(seq) == seq

RECURSIVE SortByTime(_)
SortByTime(seq) ==
    IF seq = << >> THEN << >>
    ELSE InsertByTime(SortByTime(SubSeq(seq, 1, Len(seq) - 1)), seq[Len(seq)])

(***************************************************************************)
(* Inputs: the lyrics file, the clock readings                             *)
(***************************************************************************)

\* Longest lyrics file, in lines.
MaxLines == 3

\* The clock readings are the multiples of ClockUnit centiseconds from
\* -ClockUnit (time.time() may step back behind start_time) to
\* MaxClock * ClockUnit.
ClockUnit == 25
MaxClock == 6

ClockReadings == {ClockUnit * k : k \in -1..MaxClock}

Bracketed(timestamp, text) == << "[" >> \o timestamp \o << "]" >> \o text

\* Lines whose times fall inside the clock readings, a line whose signed
\* minutes int() accepts (its time is -10 s), and a metadata tag.
PlayLines ==
    { Bracketed(<<"0","0",":","0","0",".","0","0">>, <<"a">>),
      Bracketed(<<"0","0",":","0","0",".","5","0">>, <<"b">>),
      Bracketed(<<"0","0",":","0","0",".","5","0">>, <<"c">>),
      Bracketed(<<"0","0",":","0","1">>, <<"d">>),
      Bracketed(<<"-","1",":","5","0">>, <<"e">>),
      <<"[","a","r",":","x","]">> }

RECURSIVE SeqsUpTo(_, _)
SeqsUpTo(S, n) ==
    IF n = 0 THEN { << >> }
    ELSE LET shorter == SeqsUpTo(S, n - 1)
         IN  shorter \cup { Append(f, x) : f \in shorter, x \in S }

PlayFiles == SeqsUpTo(PlayLines, MaxLines)

\* Timestamps M:S and M:S.C with one to three digits in each component.
StampMinutes == { <<"0">>, <<"0","1">>, <<"1","0">> }
StampSeconds == { <<"0">>, <<"0","2">>, <<"5","9">> }
StampCentis  == { << >>, <<".","5">>, <<".","5","0">>, <<".","0","7">>,
                  <<".","1","2","5">> }

StampLines ==
    { Bracketed(m \o <<":">> \o s \o c, <<"h","i">>) :
        m \in StampMinutes, s \in StampSeconds, c \in StampCentis }
    \cup { Bracketed(<<"0","1",":","0","2",".","5","0">>, <<"h","e","l","l","o">>),
           Bracketed(<<"0","0",":","0","0">>, <<"h","i">>) }

StampFiles == { << l >> : l \in StampLines }

\* Lines at the edges of the parser's rules: blanks around the line and the
\* text, a timestamp with no text, characters before the "[", a "]" with no
\* "[", a blank line, and a line 10 s away from the start.
EdgeLines ==
    { <<" ">> \o Bracketed(<<"0","0",":","0","0",".","5","0">>, <<" ","b"," ">>),
      Bracketed(<<"0","0",":","0","0",".","5","0">>, << >>),
      Bracketed(<<"0","0",":","0","0",".","5","0">>, <<" "," ">>),
      <<"x">> \o Bracketed(<<"0","0",":","0","0",".","5","0">>, <<"b">>),
      <<"a","0","0",":","0","1","]","c">>,
      <<" "," ">>,
      Bracketed(<<"0","0",":","1","0">>, <<"f">>) }

\* Files of one or two such lines.
EdgeFiles == { << l >> : l \in EdgeLines } \cup { << l, m >> : l, m \in EdgeLines }

\* A file with more lines than the screen shows as previous lines.
LongFile ==
    << Bracketed(<<"0","0",":","0","0",".","0","0">>, <<"a">>),
       Bracketed(<<"0","0",":","0","0",".","5","0">>, <<"b">>),
       Bracketed(<<"0","0",":","0","0",".","5","0">>, <<"c">>),
       Bracketed(<<"0","0",":","0","1">>, <<"d">>),
       Bracketed(<<"0","0",":","0","1",".","0","0">>, <<"g">>) >>

\* A file whose second line is 10 s after the first.
PreviewFile ==
    << Bracketed(<<"0","0",":","0","0",".","0","0">>, <<"a">>),
       Bracketed(<<"0","0",":","1","0">>, <<"f">>) >>

Files == PlayFiles \cup StampFiles \cup EdgeFiles \cup {LongFile, PreviewFile}

\* What open() and readlines() do with the lyrics path: the file is read,
\* the path is None (the song has no .lrc), the file is gone, its bytes are
\* not UTF-8, or it may not be read.
Sources == {"ok", "none", "missing", "undecodable", "unreadable"}

\* The files given to the single-song player of karaoke_universal.py.
UniversalFiles == { << >> } \cup { << l >> : l \in PlayLines }

(***************************************************************************)
(* State                                                                   *)
(***************************************************************************)

VARIABLES
    pc,                  \* where the session is: Created, LyricsLoaded, Ready,
                         \* AudioFailed, Running, AudioOnly, Finished, Done,
                         \* Crashed
    file,                \* the lines of the lyrics file (file.readlines())
    lyrics,              \* self.lyrics
    has_lyrics,          \* what load_lyrics returned
    total_duration,      \* total_duration of load_lyrics
    displayed_lines,     \* displayed_lines of play
    current_line_index,  \* current_line_index of play
    last_update_time,    \* last_update_time of play
    current_time,        \* current_time of the latest tick
    busy,                \* pygame.mixer.music.get_busy() of the latest tick
    should_update,       \* should_update of the latest tick
    emitted,             \* whether the latest tick drew the screen
    frame,               \* what the latest tick drew on the screen
    player,              \* the program: "main" (main.py) or "universal"
                         \* (support/karaoke_universal.py)
    source,              \* what reading the lyrics path gives (see Sources)
    exc,                 \* the exception raised in load_lyrics or play
                         \* (Ctrl+C included), "none" when there was none
    stop_called,         \* whether pygame.mixer.music.stop() has been called
    audio_loaded,        \* the answer of load_audio, FALSE before it
    input_lines,         \* adjust_timing.py: the lines of the first input file
    offsets,             \* adjust_timing.py: the offsets of the runs so far
    adjusted_lines       \* adjust_timing.py: the lines written by the latest run

vars == << pc, file, lyrics, has_lyrics, total_duration, displayed_lines,
           current_line_index, last_update_time, current_time, busy,
           should_update, emitted, frame, player, source, exc, stop_called,
           audio_loaded, input_lines, offsets, adjusted_lines >>

\* The state of the timing tool, which the players do not touch.
toolVars == << input_lines, offsets, adjusted_lines >>

loopVars == << displayed_lines, current_line_index, last_update_time,
               current_time, busy, should_update, emitted, frame >>

\* The program and the lyrics path do not change during a session.
envVars == << player, source >>

exitVars == << exc, stop_called >>

\* No frame on the screen.
NoFrame == [drawn |-> FALSE]

Init ==
    /\ pc = "Created"
    /\ \/ player = "main" /\ source = "ok" /\ file \in Files
       \/ player = "main" /\ source \in Sources \ {"ok"} /\ file = << >>
       \/ player = "universal" /\ source = "ok" /\ file \in UniversalFiles
    /\ lyrics = << >>
    /\ has_lyrics = FALSE
    /\ total_duration = 0
    /\ displayed_lines = << >>
    /\ current_line_index = 0
    /\ last_update_time = 0
    /\ current_time = 0
    /\ busy = FALSE
    /\ should_update = FALSE
    /\ emitted = FALSE
    /\ frame = NoFrame
    /\ exc = "none"
    /\ stop_called = FALSE
    /\ audio_loaded = FALSE
    /\ input_lines = << >>
    /\ offsets = << >>
    /\ adjusted_lines = << >>

(***************************************************************************)
(* KaraokePlayer.load_lyrics                                               *)
(***************************************************************************)

\* The exception that open() or readlines() raises and load_lyrics does not
\* catch: its "except FileNotFoundError" catches neither UnicodeDecodeError
\* nor PermissionError.
LoadRaises ==
    CASE source = "undecodable" -> "UnicodeDecodeError"
      [] source = "unreadable"  -> "PermissionError"
      [] OTHER                  -> "none"

\* load_lyrics and what its caller does with the answer.  In main.py a
\* UnicodeDecodeError, a ValueError, is caught by main's "except ValueError"
\* and any other exception by the handler of __main__, which stops the
\* mixer; the main of karaoke_universal.py returns when the answer is False.
LoadLyrics ==
    /\ pc = "Created"
    /\ IF LoadRaises # "none"
       THEN /\ exc' = LoadRaises
            /\ stop_called' = (source = "unreadable")
            /\ pc' = "LoadRaised"
            /\ UNCHANGED << lyrics, has_lyrics, total_duration >>
       ELSE /\ LET parsed == IF source = "ok" THEN ParseLines(file) ELSE << >>
               IN  IF parsed = << >>
                   THEN /\ lyrics' = << >>
                        /\ has_lyrics' = FALSE
                        /\ total_duration' = 0
                   ELSE /\ lyrics' = SortByTime(parsed)
                        /\ has_lyrics' = TRUE
                        /\ total_duration' = lyrics'[Len(lyrics')].time
            /\ pc' = IF player = "universal" /\ ~has_lyrics'
                     THEN "Exited" ELSE "LyricsLoaded"
            /\ UNCHANGED exitVars
    /\ UNCHANGED << file, loopVars, envVars, toolVars, audio_loaded >>

(***************************************************************************)
(* KaraokePlayer.load_audio, and main's "if not player.load_audio()"       *)
(***************************************************************************)

\* A caller that goes on to play() whatever load_audio answers.
LoadAudioUnchecked ==
    /\ pc = "LyricsLoaded"
    /\ \E ok \in BOOLEAN :
          /\ audio_loaded' = ok
          /\ pc' = "Ready"
    /\ UNCHANGED << file, lyrics, has_lyrics, total_duration, loopVars,
                    envVars, toolVars, exitVars >>

LoadAudio ==
    /\ pc = "LyricsLoaded"
    /\ \E ok \in BOOLEAN :
          /\ audio_loaded' = ok
          /\ pc' = IF ok THEN "Ready" ELSE "AudioFailed"
    /\ UNCHANGED << file, lyrics, has_lyrics, total_duration, loopVars,
                    envVars, toolVars, exitVars >>

(***************************************************************************)
(* KaraokePlayer.play                                                      *)
(***************************************************************************)

\* Refresh period of the screen: 0.5 s, in centiseconds.
RefreshPeriod == 50

\* pygame.mixer.music.play(), start_time, and the locals of the karaoke
\* branch; with no lyrics the audio-only branch is taken.
Play ==
    /\ pc = "Ready"
    /\ pc' = IF lyrics = << >> THEN "AudioOnly" ELSE "Running"
    /\ displayed_lines' = << >>
    /\ current_line_index' = 0
    /\ last_update_time' = 0
    /\ UNCHANGED << file, lyrics, has_lyrics, total_duration, current_time, busy,
                    should_update, emitted, frame, envVars, toolVars, audio_loaded, exitVars >>

\* "while pygame.mixer.music.get_busy(): time.sleep(0.1)"
AudioOnlyTick(b) ==
    /\ pc = "AudioOnly"
    /\ busy' = b
    /\ pc' = IF b THEN "AudioOnly" ELSE "Finished"
    /\ UNCHANGED << file, lyrics, has_lyrics, total_duration, displayed_lines,
                    current_line_index, last_update_time, current_time,
                    should_update, emitted, frame, envVars, toolVars, audio_loaded, exitVars >>

\* A loop that surfaces every line that is due, not only the next one.
RECURSIVE AdvanceWhileDue(_, _, _)
AdvanceWhileDue(index, shown, now) ==
    IF index < Len(lyrics) /\ now >= lyrics[index + 1].time
    THEN [AdvanceWhileDue(index + 1, Append(shown, lyrics[index + 1].text), now)
            EXCEPT !.should_update = TRUE]
    ELSE [should_update |-> FALSE, index |-> index, shown |-> shown]

\* A loop that re-derives the cursor from the clock on every tick.
AdvanceResync(index, shown, now) ==
    LET due == Cardinality({i \in 1..Len(lyrics) : lyrics[i].time <= now})
    IN  [should_update |-> due > index, index |-> due,
         shown |-> [i \in 1..due |-> lyrics[i].text]]

\* A loop that reads the line after the increment of the cursor.
AdvanceReadsAfterIncrement(index, shown, now) ==
    IF index < Len(lyrics) /\ now >= lyrics[index + 1].time
    THEN [should_update |-> TRUE, index |-> index + 1,
          shown |-> Append(shown, lyrics[IF index + 2 <= Len(lyrics)
                                         THEN index + 2 ELSE 1].text)]
    ELSE [should_update |-> FALSE, index |-> index, shown |-> shown]

\* A loop that compares the clock with ">" where the code has ">=".
AdvanceStrictlyAfter(index, shown, now) ==
    IF index < Len(lyrics) /\ now > lyrics[index + 1].time
    THEN [should_update |-> TRUE, index |-> index + 1,
          shown |-> Append(shown, lyrics[index + 1].text)]
    ELSE [should_update |-> FALSE, index |-> index, shown |-> shown]

\* "if current_line_index < len(self.lyrics): ..." of one tick: should_update,
\* current_line_index and displayed_lines after it.
Advance(index, shown, now) ==
    IF index < Len(lyrics) /\ now >= lyrics[index + 1].time
    THEN [should_update |-> TRUE, index |-> index + 1,
          shown |-> Append(shown, lyrics[index + 1].text)]
    ELSE [should_update |-> FALSE, index |-> index, shown |-> shown]

\* A screen that is drawn only when a line is surfaced.
ShouldEmitOnNewLineOnly(upd, now, last) == upd

\* A refresh that waits for more than the period.
ShouldEmitAfterPeriod(upd, now, last) == upd \/ (now - last) > RefreshPeriod

\* "if should_update or (current_time - last_update_time) >= 0.5"
ShouldEmit(upd, now, last) == upd \/ (now - last) >= RefreshPeriod

\* A loop that moves last_update_time on every tick.
LastUpdateEveryTick(emit, now, last) == now

\* "last_update_time = current_time" inside the if
LastUpdate(emit, now, last) == IF emit THEN now ELSE last

\* "total_duration = self.lyrics[-1]['time'] + 10" of the progress bar.
ProgressTail == 1000

ProgressTotal == lyrics[Len(lyrics)].time + ProgressTail

\* "progress = min(current_time / total_duration, 1.0)" raises
\* ZeroDivisionError when total_duration is 0; the exception leaves play().
AfterFrame(emit) == IF emit /\ ProgressTotal = 0 THEN "Crashed" ELSE "Running"

\* "min(3, ...)": at most three previous lines are drawn.
MaxPrevious == 3

\* "time_until_next < 10": the preview shows a line less than 10 s away,
\* in centiseconds.
PreviewWindow == 1000

\* Previous lines that always end with the latest line of the history.
PreviousLinesWithCurrent(shown, upd) ==
    LET room == Len(shown) - MaxPrevious
    IN  Slice(shown, IF room > 0 THEN room ELSE 0, Len(shown))

\* Previous lines that never hold the latest line of the history.
PreviousLinesWithoutCurrent(shown, upd) ==
    LET room == Len(shown) - 1 - MaxPrevious
    IN  Slice(shown, IF room > 0 THEN room ELSE 0, Len(shown) - 1)

\* The dimmed lines above the current one: "displayed_lines[start_idx:
\* len(displayed_lines) - (1 if should_update else 0)]", nothing when no line
\* has been surfaced.
PreviousLines(shown, upd) ==
    IF shown = << >>
    THEN << >>
    ELSE LET last == IF upd THEN 1 ELSE 0
             bound == Len(shown) - last
             num_prev == IF MaxPrevious < bound THEN MaxPrevious ELSE bound
             room == Len(shown) - num_prev - last
             start_idx == IF room > 0 THEN room ELSE 0
         IN  Slice(shown, start_idx, Len(shown) - last)

\* The line drawn as current, displayed_lines[-1] in both branches, or
\* nothing when no line has been surfaced.
CurrentLine(shown) == IF shown = << >> THEN << >> ELSE << shown[Len(shown)] >>

\* A screen that highlights the current line on every frame.
IsNewLineOnEveryFrame(shown, upd) == shown # << >>

\* "if should_update and displayed_lines": the current line is highlighted
\* as new; the "elif displayed_lines" draws it in bold only.
IsNewLine(shown, upd) == upd /\ shown # << >>

\* A preview that also shows a line exactly the window away.
UpcomingUpToWindow(index, now) ==
    IF index < Len(lyrics)
    THEN LET next_line == lyrics[index + 1]
             time_until_next == next_line.time - now
         IN  IF time_until_next > 0 /\ time_until_next <= PreviewWindow
             THEN << [text |-> next_line.text, time_until_next |-> time_until_next] >>
             ELSE << >>
    ELSE << >>

\* "Coming up in ...": the next line and the time left to it, when that
\* time is positive and under the window.
Upcoming(index, now) ==
    IF index < Len(lyrics)
    THEN LET next_line == lyrics[index + 1]
             time_until_next == next_line.time - now
         IN  IF time_until_next > 0 /\ time_until_next < PreviewWindow
             THEN << [text |-> next_line.text, time_until_next |-> time_until_next] >>
             ELSE << >>
    ELSE << >>

\* "bar_width = 50"
BarWidth == 50

\* "progress = min(current_time / total_duration, 1.0)" as the fraction
\* num / den with den > 0; there is no lower clamp.  Defined when
\* total_duration is not 0.
Progress(now) ==
    LET total == ProgressTotal
        num == IF total > 0 THEN now ELSE 0 - now
        den == IF total > 0 THEN total ELSE 0 - total
    IN  IF num >= den THEN [num |-> 1, den |-> 1] ELSE [num |-> num, den |-> den]

\* int(x) of the fraction num / den, den > 0: truncation towards zero.
IntOfFraction(num, den) ==
    IF num >= 0 THEN num \div den ELSE 0 - ((0 - num) \div den)

\* "filled = int(bar_width * progress)"
Filled(now) == IntOfFraction(BarWidth * Progress(now).num, Progress(now).den)

\* The progress bar of a frame: none when the division raises, which is
\* after the lines and the preview have been printed.
Bar(now) ==
    IF ProgressTotal = 0
    THEN << >>
    ELSE << [progress |-> Progress(now), filled |-> Filled(now)] >>

\* The screen drawn by a tick, from the values after its advance.
Frame(shown, upd, index, now) ==
    [drawn         |-> TRUE,
     previousLines |-> PreviousLines(shown, upd),
     currentLine   |-> CurrentLine(shown),
     isNewLine     |-> IsNewLine(shown, upd),
     upcoming      |-> Upcoming(index, now),
     bar           |-> Bar(now)]

\* The loop body after the get_busy() test, for the clock reading now.
Step(now) ==
    LET a == Advance(current_line_index, displayed_lines, now)
        emit == ShouldEmit(a.should_update, now, last_update_time)
    IN  /\ current_time' = now
        /\ should_update' = a.should_update
        /\ current_line_index' = a.index
        /\ displayed_lines' = a.shown
        /\ emitted' = emit
        /\ last_update_time' = LastUpdate(emit, now, last_update_time)
        /\ frame' = IF emit
                    THEN Frame(a.shown, a.should_update, a.index, now)
                    ELSE NoFrame

\* "if not pygame.mixer.music.get_busy(): break"
Break ==
    /\ emitted' = FALSE
    /\ frame' = NoFrame
    /\ UNCHANGED << displayed_lines, current_line_index, last_update_time,
                    current_time, should_update >>

\* The ZeroDivisionError is caught by neither play nor main: the handler of
\* __main__ prints it and stops the mixer.
Raise(after) ==
    IF after = "Crashed"
    THEN exc' = "ZeroDivisionError" /\ stop_called' = TRUE
    ELSE UNCHANGED exitVars

\* A loop that tests get_busy() at the end of the body.
TickTestsBusyLast(b, now) ==
    /\ pc = "Running"
    /\ busy' = b
    /\ Step(now)
    /\ pc' = IF b THEN AfterFrame(emitted') ELSE "Finished"
    /\ Raise(pc')
    /\ UNCHANGED << file, lyrics, has_lyrics, total_duration, envVars, toolVars, audio_loaded >>

\* A loop that also ends when the last line has been surfaced.
TickEndsAfterLastLine(b, now) ==
    /\ pc = "Running"
    /\ busy' = b
    /\ IF ~b \/ current_line_index = Len(lyrics)
       THEN Break /\ pc' = "Finished"
       ELSE Step(now) /\ pc' = AfterFrame(emitted')
    /\ Raise(pc')
    /\ UNCHANGED << file, lyrics, has_lyrics, total_duration, envVars, toolVars, audio_loaded >>

\* One iteration of "while True" with the answers b of get_busy() and now of
\* get_current_time().
Tick(b, now) ==
    /\ pc = "Running"
    /\ busy' = b
    /\ IF ~b
       THEN Break /\ pc' = "Finished"
       ELSE Step(now) /\ pc' = AfterFrame(emitted')
    /\ Raise(pc')
    /\ UNCHANGED << file, lyrics, has_lyrics, total_duration, envVars, toolVars, audio_loaded >>

\* The final screen and the session summary.
FinalScreen ==
    /\ pc = "Finished"
    /\ pc' = "Done"
    /\ UNCHANGED << file, lyrics, has_lyrics, total_duration, loopVars,
                    envVars, toolVars, audio_loaded, exitVars >>

\* Ctrl+C while play() runs.  In main.py play() is called inside the try of
\* main, whose "except KeyboardInterrupt" prints and breaks out of the menu
\* loop: the handler of __main__, which stops the mixer, is not reached.  In
\* karaoke_universal.py the exception reaches the handler of __main__.
Interrupt ==
    /\ pc \in {"Running", "AudioOnly"}
    /\ pc' = "Interrupted"
    /\ exc' = "KeyboardInterrupt"
    /\ stop_called' = (player = "universal")
    /\ UNCHANGED << file, lyrics, has_lyrics, total_duration, loopVars, envVars, toolVars, audio_loaded >>

Next ==
    \/ LoadLyrics
    \/ LoadAudio
    \/ Play
    \/ \E b \in BOOLEAN : AudioOnlyTick(b)
    \/ \E b \in BOOLEAN, now \in ClockReadings : Tick(b, now)
    \/ FinalScreen
    \/ Interrupt

Spec == Init /\ [][Next]_vars

(***************************************************************************)
(* A session of main.py on a three-line file, with a clock read in whole   *)
(* seconds                                                                 *)
(***************************************************************************)

ScenarioFile ==
    << Bracketed(<<"0","0",":","0","0",".","0","0">>, <<"a">>),
       Bracketed(<<"0","0",":","0","1",".","0","0">>, <<"b">>),
       Bracketed(<<"0","0",":","0","3",".","0","0">>, <<"c">>) >>

\* The clock readings 0 s to 4 s, in centiseconds, in any order.
ScenarioReadings == {0, 100, 200, 300, 400}

ScenarioInit ==
    /\ pc = "Created"
    /\ player = "main" /\ source = "ok" /\ file = ScenarioFile
    /\ lyrics = << >>
    /\ has_lyrics = FALSE
    /\ total_duration = 0
    /\ displayed_lines = << >>
    /\ current_line_index = 0
    /\ last_update_time = 0
    /\ current_time = 0
    /\ busy = FALSE
    /\ should_update = FALSE
    /\ emitted = FALSE
    /\ frame = NoFrame
    /\ exc = "none"
    /\ stop_called = FALSE
    /\ audio_loaded = FALSE
    /\ input_lines = << >>
    /\ offsets = << >>
    /\ adjusted_lines = << >>

ScenarioNext ==
    \/ LoadLyrics
    \/ LoadAudio
    \/ Play
    \/ \E b \in BOOLEAN, now \in ScenarioReadings : Tick(b, now)
    \/ FinalScreen
    \/ Interrupt

ScenarioSpec == ScenarioInit /\ [][ScenarioNext]_vars

(***************************************************************************)
(* support/adjust_timing.py                                                *)
(***************************************************************************)

\* parse_timestamp: the time of a timestamp in centiseconds, or None (any
\* exception of the body is caught).
ParseTimestamp(timestamp) ==
    LET parts == Split(timestamp, ":")
        minutes == PyInt(parts[1])
    IN  IF ~minutes.ok \/ Len(parts) < 2 THEN [ok |-> FALSE, val |-> 0]
        ELSE LET sec_parts == Split(parts[2], ".")
                 dotted == Contains(parts[2], ".")
                 seconds == IF dotted THEN PyInt(sec_parts[1]) ELSE PyInt(parts[2])
                 centiseconds == IF dotted THEN PyInt(sec_parts[2])
                                 ELSE [ok |-> TRUE, val |-> 0]
             IN  IF ~seconds.ok \/ ~centiseconds.ok
                 THEN [ok |-> FALSE, val |-> 0]
                 ELSE [ok |-> TRUE,
                       val |-> 6000 * minutes.val + 100 * seconds.val
                               + centiseconds.val]

\* The offsets given to the tool: 2 s later and 2 s earlier, in centiseconds.
Offsets == {200, 0 - 200}

\* The times the tool meets when it starts from the lines of AdjustLines.
ToolTimes == {0, 1} \cup {100 * k : k \in 1..15}

\* The non-negative times of the lines the players' input files keep.
PlayerTimes ==
    {0, 5, 7, 50, 100, 125, 200, 205, 207, 250, 300, 325, 1000,
     5900, 5905, 5907, 5950, 6000, 6005, 6007, 6025, 6050, 6125,
     6200, 6205, 6207, 6250, 6325, 11900, 11905, 11907, 11950, 12025,
     60000, 60005, 60007, 60050, 60125, 60200, 60205, 60207, 60250, 60325,
     65900, 65905, 65907, 65950, 66025}

\* The pairs (time, offset) on which format_timestamp was run, the time
\* being what the parser computes for a timestamp of that value.
Measured ==
    {<<t, 0>> : t \in PlayerTimes} \cup {<<t, off>> : t \in ToolTimes, off \in Offsets}

\* The measured pairs for which "int((remaining_seconds - secs) * 100)",
\* computed in IEEE doubles, is one less than the centiseconds of
\* time + offset: 2.05 % 60 - 2 is 0.04999999999999982, and 0.01 + 2.0 is
\* 2.0099999999999998.
Truncating ==
    {<<205, 0>>, <<207, 0>>, <<5905, 0>>, <<6005, 0>>, <<6205, 0>>,
     <<11905, 0>>, <<11907, 0>>, <<60005, 0>>, <<60205, 0>>, <<65905, 0>>,
     <<1, 200>>}

\* The centiseconds format_timestamp loses on time + offset; only measured
\* pairs have a value.
FloatLoss(time, offset) ==
    CASE <<time, offset>> \in Truncating -> 1
      [] <<time, offset>> \in Measured \ Truncating -> 0

\* The decimal digits of a natural number.
RECURSIVE DigitsOf(_)
DigitsOf(n) ==
    IF n < 10 THEN << Digits[n + 1] >>
    ELSE DigitsOf(n \div 10) \o << Digits[(n % 10) + 1] >>

\* f"{n:02d}"
TwoDigits(n) == IF n < 10 THEN << "0" >> \o DigitsOf(n) ELSE DigitsOf(n)

\* A format_timestamp without "if seconds < 0: seconds = 0": the floor
\* division gives negative minutes, written with their sign.
FormatTimestampUnclamped(time, offset) ==
    LET seconds == time + offset
        shown == IF seconds < 0 THEN seconds ELSE seconds - FloatLoss(time, offset)
        minutes == shown \div 6000
    IN  (IF minutes < 0 THEN << "-" >> \o DigitsOf(0 - minutes) ELSE TwoDigits(minutes))
        \o << ":" >>
        \o TwoDigits((shown % 6000) \div 100) \o << "." >> \o TwoDigits(shown % 100)

\* format_timestamp(time + offset), time being a parsed time, in
\* centiseconds: MM:SS.CC of the clamped sum, less what the doubles lose.
FormatTimestamp(time, offset) ==
    LET seconds == time + offset
        shown == IF seconds < 0 THEN 0 ELSE seconds - FloatLoss(time, offset)
    IN  TwoDigits(shown \div 6000) \o << ":" >>
        \o TwoDigits((shown % 6000) \div 100) \o << "." >> \o TwoDigits(shown % 100)

\* The body of "for line in lines" of adjust_lrc_timing: the line appended
\* to adjusted_lines.
AdjustLine(line, offset_seconds) ==
    IF line # << >> /\ Contains(line, "[") /\ Contains(line, "]")
    THEN LET bracket_start == Find(line, "[")
             bracket_end == Find(line, "]")
             timestamp == Slice(line, bracket_start + 1, bracket_end)
             text == SliceFrom(line, bracket_end + 1)
             time_seconds == ParseTimestamp(timestamp)
         IN  IF bracket_end > bracket_start /\ time_seconds.ok
             THEN << "[" >> \o FormatTimestamp(time_seconds.val, offset_seconds)
                  \o << "]" >> \o text
             ELSE line
    ELSE line

\* adjusted_lines after the loop.
AdjustLrcTiming(lines, offset_seconds) ==
    [i \in 1..Len(lines) |-> AdjustLine(lines[i], offset_seconds)]

\* The lines readlines() gives for the file written with
\* "'\n'.join(adjusted_lines)": an empty last line is not read back.
ReadBack(lines) ==
    IF lines # << >> /\ lines[Len(lines)] = << >>
    THEN SubSeq(lines, 1, Len(lines) - 1)
    ELSE lines

\* Lines given to the tool: timestamped lines, one with blanks in its text,
\* a timestamp int() reads without leading zeros, a metadata tag, an empty
\* line, a line with a character before the "[", a line with two
\* timestamps, and a line whose "]" comes before its "[".
AdjustLines ==
    { Bracketed(<<"0","0",":","0","0",".","0","1">>, <<"a">>),
      Bracketed(<<"0","0",":","0","1",".","0","0">>, <<" ","b"," ">>),
      Bracketed(<<"0",":","5">>, <<"q">>),
      <<"[","a","r",":","x","]">>,
      << >>,
      <<"x">> \o Bracketed(<<"0","0",":","0","1",".","0","0">>, <<"h","i">>),
      Bracketed(<<"0","0",":","0","1",".","0","0">>,
                Bracketed(<<"0","0",":","0","3",".","0","0">>, <<"z">>)),
      <<"]","x">> \o Bracketed(<<"0","0",":","0","1",".","0","0">>, <<"y">>) }

\* Files of one or two such lines.
AdjustFiles == { << l >> : l \in AdjustLines } \cup { << l, m >> : l, m \in AdjustLines }

\* The tool is run at most this many times in a row, each run reading the
\* file the run before has written.
MaxRuns == 2

\* The variables of the players, which the tool does not touch.
playerVars == << pc, file, lyrics, has_lyrics, total_duration, loopVars,
                 envVars, exitVars, audio_loaded >>

\* The lines the next run of the tool reads.
ToolInput == IF offsets = << >> THEN input_lines ELSE ReadBack(adjusted_lines)

\* One run of adjust_lrc_timing with the offset offset_seconds.
AdjustRun(offset_seconds) ==
    /\ Len(offsets) < MaxRuns
    /\ adjusted_lines' = AdjustLrcTiming(ToolInput, offset_seconds)
    /\ offsets' = Append(offsets, offset_seconds)
    /\ UNCHANGED << input_lines, playerVars >>

AdjustInit ==
    /\ pc = "Created"
    /\ player = "main" /\ source = "ok" /\ file = << >>
    /\ lyrics = << >>
    /\ has_lyrics = FALSE
    /\ total_duration = 0
    /\ displayed_lines = << >>
    /\ current_line_index = 0
    /\ last_update_time = 0
    /\ current_time = 0
    /\ busy = FALSE
    /\ should_update = FALSE
    /\ emitted = FALSE
    /\ frame = NoFrame
    /\ exc = "none"
    /\ stop_called = FALSE
    /\ audio_loaded = FALSE
    /\ input_lines \in AdjustFiles
    /\ offsets = << >>
    /\ adjusted_lines = << >>

AdjustNext == \E offset_seconds \in Offsets : AdjustRun(offset_seconds)

AdjustSpec == AdjustInit /\ [][AdjustNext]_vars

(***************************************************************************)
(* Properties of the playback loop                                         *)
(***************************************************************************)

\* A step of the loop in which get_busy() answered True.
PlayingTick == pc = "Running" /\ busy' = TRUE /\ pc' # "Interrupted"

\* A step of the loop in which get_busy() answered False.
StoppedTick == pc = "Running" /\ busy' = FALSE /\ pc' # "Interrupted"

\* The pending lines whose time has been reached at the reading now.
DueLines(index, now) == {i \in (index + 1)..Len(lyrics) : lyrics[i].time <= now}

IsPrefix(s, t) == Len(s) <= Len(t) /\ SubSeq(t, 1, Len(s)) = s

\* C1: on every tick, whatever the clock reads, the cursor grows by at most
\* one and at most one text is appended to the history; on a playing tick
\* at which two or more pending lines are due, exactly one is appended.
AtMostOneAdvancePerTick ==
    [][ /\ current_line_index' - current_line_index <= 1
        /\ Len(displayed_lines') - Len(displayed_lines) <= 1
        /\ (PlayingTick /\ Cardinality(DueLines(current_line_index, current_time')) >= 2)
              => /\ current_line_index' = current_line_index + 1
                 /\ Len(displayed_lines') = Len(displayed_lines) + 1 ]_vars

\* A tick has surfaced a line while a further line was due at the same reading.
BacklogTickSeen ==
    /\ pc = "Running"
    /\ should_update
    /\ current_line_index < Len(lyrics)
    /\ lyrics[current_line_index + 1].time <= current_time

\* C2: the cursor never decreases from one tick of a playback to the next,
\* whatever the clock readings and the answers of the predicate are.
MonotonicCursor ==
    [][pc = "Running" => current_line_index' >= current_line_index]_vars

\* The clock has stepped back behind the time of a line already surfaced.
ClockBehindCursor ==
    /\ pc = "Running"
    /\ current_line_index >= 1
    /\ current_time < lyrics[current_line_index].time

\* C3: the cursor stays within 0..len(lyrics), the history is exactly the
\* texts of lyrics[0 .. index-1] in timeline order, and the history only
\* grows by appending.
CursorHistoryInvariant ==
    /\ [](/\ 0 <= current_line_index
          /\ current_line_index <= Len(lyrics)
          /\ Len(displayed_lines) = current_line_index
          /\ \A i \in 1..current_line_index : displayed_lines[i] = lyrics[i].text)
    /\ [][IsPrefix(displayed_lines, displayed_lines')]_vars

\* Every line of a timeline of two or more lines has been surfaced.
AllLinesSurfaced ==
    /\ pc = "Running"
    /\ Len(lyrics) >= 2
    /\ current_line_index = Len(lyrics)

\* C4: on a playing tick a line is surfaced iff index < len(lyrics) and
\* elapsed >= lyrics[index].time, the line surfaced is lyrics[index], and so
\* no line is surfaced at an elapsed time below its own timestamp.
AdvanceCondition ==
    [][PlayingTick =>
         LET due == /\ current_line_index < Len(lyrics)
                    /\ current_time' >= lyrics[current_line_index + 1].time
         IN  /\ should_update' <=> due
             /\ due => /\ current_line_index' = current_line_index + 1
                       /\ displayed_lines' =
                            Append(displayed_lines, lyrics[current_line_index + 1].text)
                       /\ current_time' >= lyrics[current_line_index'].time
             /\ ~due => /\ current_line_index' = current_line_index
                        /\ displayed_lines' = displayed_lines ]_vars

\* A line has been surfaced at the very reading that equals its timestamp.
SurfacedOnTime ==
    /\ pc = "Running"
    /\ should_update
    /\ current_line_index >= 1
    /\ current_time = lyrics[current_line_index].time

\* C5: on a playing tick a frame is emitted iff a line was surfaced on it or
\* elapsed - lastEmitTime >= 0.5 s; lastEmitTime becomes the tick's elapsed
\* exactly when a frame is emitted, is unchanged otherwise, and starts at 0.
EmissionRule ==
    [][ /\ PlayingTick =>
             /\ emitted' <=> (should_update' \/ current_time' - last_update_time >= 50)
             /\ last_update_time' = IF emitted' THEN current_time' ELSE last_update_time
        /\ (pc = "Ready" /\ pc' = "Running") => last_update_time' = 0 ]_vars

\* A tick has emitted a periodic refresh: a frame with no new line.
PeriodicRefreshSeen ==
    /\ pc = "Running"
    /\ emitted
    /\ ~should_update
    /\ current_time = last_update_time

\* C6: the tick on which the predicate first answers False ends the loop
\* without advancing the cursor, appending to the history or emitting a
\* frame, and no frame is produced once the loop has finished.
FinishedIsTerminal ==
    [][ /\ StoppedTick =>
             /\ pc' = "Finished"
             /\ ~emitted'
             /\ current_line_index' = current_line_index
             /\ displayed_lines' = displayed_lines
             /\ last_update_time' = last_update_time
        /\ (pc' = "Finished") => ~busy'
        /\ pc \in {"Finished", "Done"} =>
             /\ pc' \in {"Finished", "Done"}
             /\ ~emitted'
             /\ current_line_index' = current_line_index
             /\ displayed_lines' = displayed_lines
             /\ last_update_time' = last_update_time ]_vars

\* The loop has finished while a pending line was due at the last reading.
FinishedWithLineDue ==
    /\ pc = "Done"
    /\ current_line_index < Len(lyrics)
    /\ lyrics[current_line_index + 1].time <= current_time

\* C7: the loop reaches Finished on a tick iff the predicate answers False
\* on that tick; on a tick the predicate answers True the loop goes on,
\* every line surfaced or not and whatever the clock reads (the one other
\* way out of the loop, the user's interrupt apart, is the exception of a
\* frame whose progress total is 0, which is not Finished).
TerminationGatedByAudio ==
    [][((pc = "Running" \/ pc = "AudioOnly") /\ pc' # "Interrupted") =>
         /\ (pc' = "Finished") <=> ~busy'
         /\ (busy' /\ pc' # pc) => (pc' = "Crashed" /\ emitted' /\ ProgressTotal = 0) ]_vars

\* The loop is still running after a playing tick that found every line
\* already surfaced.
RunningAfterLastLine ==
    /\ pc = "Running"
    /\ busy
    /\ Len(lyrics) >= 1
    /\ current_line_index = Len(lyrics)
    /\ ~should_update

(***************************************************************************)
(* Properties of the parsed timeline                                       *)
(***************************************************************************)

\* The entries of seq whose time is t, in the order of seq.
AtTime(seq, t) ==
    LET HasTime(r) == r.time = t
    IN  SelectSeq(seq, HasTime)

\* The lines of equal time surfaced so far are, for every time, the first
\* such lines of the file in file order, and the history is their texts.
TiedLinesInFileOrder ==
    /\ Len(displayed_lines) = current_line_index
    /\ \A i \in 1..Len(displayed_lines) : displayed_lines[i] = lyrics[i].text
    /\ LET kept == ParseLines(file)
           surfaced == SubSeq(lyrics, 1, current_line_index)
       IN  \A t \in {kept[i].time : i \in 1..Len(kept)} :
              IsPrefix(AtTime(surfaced, t), AtTime(kept, t))

\* The latest playing tick surfaced a line and the next pending line carries
\* the same time.
TiedLinePending ==
    /\ pc = "Running"
    /\ should_update
    /\ current_line_index >= 1
    /\ current_line_index < Len(lyrics)
    /\ lyrics[current_line_index + 1].time = lyrics[current_line_index].time

\* C8 as stated: lines of identical time are surfaced in file order, one per
\* tick, and on consecutive playing ticks for every sequence of readings.
TieBreakOnConsecutiveTicks ==
    /\ []TiedLinesInFileOrder
    /\ [][ /\ Len(displayed_lines') <= Len(displayed_lines) + 1
           /\ (PlayingTick /\ TiedLinePending) =>
                 /\ current_line_index' = current_line_index + 1
                 /\ displayed_lines' =
                      Append(displayed_lines, lyrics[current_line_index + 1].text) ]_vars

\* C8, amended: lines of identical time are surfaced in file order, one per
\* tick, and on consecutive playing ticks whenever the reading of the later
\* tick has not fallen below the shared time.
TieBreakOrder ==
    /\ []TiedLinesInFileOrder
    /\ [][ /\ Len(displayed_lines') <= Len(displayed_lines) + 1
           /\ (/\ PlayingTick
               /\ TiedLinePending
               /\ current_time' >= lyrics[current_line_index].time) =>
                 /\ current_line_index' = current_line_index + 1
                 /\ displayed_lines' =
                      Append(displayed_lines, lyrics[current_line_index + 1].text) ]_vars

\* Two lines of equal time and different texts, the later one of the file
\* surfaced on the latest tick, right after the earlier one.
TiedLinesSurfaced ==
    /\ pc = "Running"
    /\ should_update
    /\ current_line_index >= 2
    /\ lyrics[current_line_index].time = lyrics[current_line_index - 1].time
    /\ displayed_lines[current_line_index] # displayed_lines[current_line_index - 1]

Occurrences(seq, r) == Cardinality({i \in 1..Len(seq) : seq[i] = r})

\* C9: after load_lyrics has returned True the lines are in ascending order
\* of time, they are a permutation of the lines kept by parsing, and the
\* duration is the time of the last line.
SortInvariant ==
    (pc # "Created" /\ has_lyrics) =>
        LET kept == ParseLines(file)
        IN  /\ \A i \in 1..(Len(lyrics) - 1) : lyrics[i].time <= lyrics[i + 1].time
            /\ Len(lyrics) = Len(kept)
            /\ \A i \in 1..Len(kept) :
                  Occurrences(lyrics, kept[i]) = Occurrences(kept, kept[i])
            /\ Len(lyrics) >= 1
            /\ total_duration = lyrics[Len(lyrics)].time
            /\ \A i \in 1..Len(kept) : kept[i].time <= total_duration

\* A file whose kept lines were not in ascending order has been loaded.
UnsortedFileLoaded ==
    /\ pc # "Created"
    /\ has_lyrics
    /\ \E i \in 1..(Len(ParseLines(file)) - 1) :
          ParseLines(file)[i].time > ParseLines(file)[i + 1].time

RECURSIVE Pow10(_)
Pow10(n) == IF n = 0 THEN 1 ELSE 10 * Pow10(n - 1)

\* The number a string of decimal digits denotes.
RECURSIVE Decimal(_)
Decimal(s) ==
    IF s = << >> THEN 0
    ELSE DigitValue(Head(s)) * Pow10(Len(s) - 1) + Decimal(Tail(s))

Positions(s, c) == {i \in 1..Len(s) : s[i] = c}

\* ts is M:S or M:S.C, each of M, S and C one or more decimal digits.
IsPlainStamp(ts) ==
    /\ Cardinality(Positions(ts, ":")) = 1
    /\ Cardinality(Positions(ts, ".")) <= 1
    /\ \A i \in 1..Len(ts) : IsDigit(ts[i]) \/ ts[i] \in {":", "."}
    /\ LET p == CHOOSE i \in Positions(ts, ":") : TRUE
       IN  /\ p > 1
           /\ IF Positions(ts, ".") = {} THEN p < Len(ts)
              ELSE LET q == CHOOSE i \in Positions(ts, ".") : TRUE
                   IN  p + 1 < q /\ q < Len(ts)

\* 6000*M + 100*S + C of a plain timestamp, C = 0 when there is no ".C".
PlainStampCentiseconds(ts) ==
    LET p == CHOOSE i \in Positions(ts, ":") : TRUE
        q == IF Positions(ts, ".") = {} THEN Len(ts) + 1
             ELSE CHOOSE i \in Positions(ts, ".") : TRUE
    IN  6000 * Decimal(SubSeq(ts, 1, p - 1))
        + 100 * Decimal(SubSeq(ts, p + 1, q - 1))
        + (IF q > Len(ts) THEN 0 ELSE Decimal(SubSeq(ts, q + 1, Len(ts))))

\* C10: every kept line whose timestamp is M:S or M:S.C has the time
\* M*60 + S + C/100 (6000*M + 100*S + C centiseconds), C being 0 when absent
\* and the integer value of the digits after the dot otherwise;
\* [01:02.50]hello gives 62.5 and [00:00]hi gives 0.0.
TimestampSemantics ==
    pc # "Created" =>
        /\ \A i \in 1..Len(lyrics) :
              IsPlainStamp(lyrics[i].timestamp) =>
                  lyrics[i].time = PlainStampCentiseconds(lyrics[i].timestamp)
        /\ file = << Bracketed(<<"0","1",":","0","2",".","5","0">>,
                               <<"h","e","l","l","o">>) >>
              => Len(lyrics) = 1 /\ lyrics[1].time = 6250
        /\ file = << Bracketed(<<"0","0",":","0","0">>, <<"h","i">>) >>
              => Len(lyrics) = 1 /\ lyrics[1].time = 0

\* A line with minutes, seconds and three digits after the dot has been kept.
LongCentisecondsKept ==
    /\ pc # "Created"
    /\ \E i \in 1..Len(lyrics) :
          /\ lyrics[i].timestamp = <<"1","0",":","5","9",".","1","2","5">>
          /\ lyrics[i].time = 66025

(***************************************************************************)
(* Properties of the parser's rules                                        *)
(***************************************************************************)

\* s contains a "+" or a "-".
HasSign(s) == \E i \in 1..Len(s) : s[i] \in {"+", "-"}

\* C11: every line of a parsed timeline has a time >= 0, and no line whose
\* timestamp carries a sign is kept.
NonNegativeTimes ==
    pc # "Created" =>
        \A i \in 1..Len(lyrics) :
            /\ lyrics[i].time >= 0
            /\ ~HasSign(lyrics[i].timestamp)

\* The least element of a non-empty set of numbers.
Least(S) == CHOOSE i \in S : \A j \in S : i <= j

\* line has a "[" followed, somewhere after it, by a "]".
HasSegment(line) ==
    \E p \in Positions(line, "[") : \E q \in Positions(line, "]") : p < q

\* The positions of the first "[" of line and of the first "]" after it.
SegmentOpen(line) == Least(Positions(line, "["))
SegmentClose(line) == Least({q \in Positions(line, "]") : q > SegmentOpen(line)})

\* The content of the first [...] segment of line, and what follows it.
SegmentContent(line) == SubSeq(line, SegmentOpen(line) + 1, SegmentClose(line) - 1)
SegmentRest(line) == SubSeq(line, SegmentClose(line) + 1, Len(line))

\* C12: every kept line comes from a line of the file that has a [...]
\* segment, its timestamp being the content of the first such segment and
\* its text the remainder after the closing bracket; a file whose lines have
\* no "[" gives no line, and a line with a character before a valid
\* [MM:SS.CC] segment is parsed from that segment.
BracketRule ==
    (pc # "Created" /\ exc = "none") =>
        /\ \A i \in 1..Len(lyrics) :
              \E k \in 1..Len(file) :
                  /\ HasSegment(file[k])
                  /\ lyrics[i].timestamp = SegmentContent(file[k])
                  /\ lyrics[i].text = Strip(SegmentRest(file[k]))
        /\ (\A k \in 1..Len(file) : Positions(file[k], "[") = {}) => lyrics = << >>
        /\ file = << <<"x">> \o Bracketed(<<"0","0",":","0","0",".","5","0">>, <<"b">>) >>
              => /\ Len(lyrics) = 1
                 /\ lyrics[1].time = 50
                 /\ lyrics[1].text = <<"b">>

\* The greatest element of a non-empty set of numbers.
Greatest(S) == CHOOSE i \in S : \A j \in S : j <= i

\* s from its first to its last character that is not whitespace.
Trimmed(s) ==
    LET solid == {i \in 1..Len(s) : ~IsSpace(s[i])}
    IN  IF solid = {} THEN << >> ELSE SubSeq(s, Least(solid), Greatest(solid))

\* What follows the first "]" of line.
AfterFirstClose(line) == SubSeq(line, Least(Positions(line, "]")) + 1, Len(line))

\* line is empty or whitespace only.
IsBlankLine(line) == \A i \in 1..Len(line) : IsSpace(line[i])

\* line has nothing but whitespace after its first "]".
IsTimestampOnly(line) ==
    Positions(line, "]") # {} /\ IsBlankLine(AfterFirstClose(line))

\* C13: every kept line has a non-empty text, the whitespace-trimmed
\* remainder after the first "]" of a line of the file; blank lines and
\* timestamp-only lines contribute no line.
TextRule ==
    (pc # "Created" /\ exc = "none") =>
        /\ \A i \in 1..Len(lyrics) :
              /\ lyrics[i].text # << >>
              /\ \E k \in 1..Len(file) :
                    /\ Positions(file[k], "]") # {}
                    /\ lyrics[i].text = Trimmed(AfterFirstClose(file[k]))
        /\ Len(lyrics) <= Cardinality({k \in 1..Len(file) :
                                ~IsBlankLine(file[k]) /\ ~IsTimestampOnly(file[k])})

\* A file with a timestamp-only line and a line whose text has blanks
\* around it has been loaded: only the second is kept, with its text trimmed.
PaddedTextKept ==
    /\ pc = "LyricsLoaded"
    /\ Len(file) = 2
    /\ IsTimestampOnly(file[1])
    /\ file[2] = <<" ">> \o Bracketed(<<"0","0",":","0","0",".","5","0">>, <<" ","b"," ">>)
    /\ Len(lyrics) = 1
    /\ lyrics[1].text = <<"b">>

(***************************************************************************)
(* Properties of the session                                               *)
(***************************************************************************)

\* C14: load_lyrics never raises: whatever the lyrics source, it returns,
\* and a source with no valid line gives the answer False and zero lines.
LoadNeverRaises ==
    /\ pc # "LoadRaised"
    /\ (pc # "Created" /\ lyrics = << >>) => ~has_lyrics

\* C15: whenever loading gave zero lines, the session goes on to play the
\* audio in audio-only mode: it is not given up for want of lyrics, its
\* loop only polls the predicate, draws no frame on any tick, and leaves
\* for Finished exactly when the predicate answers False.
AudioOnlyFallback ==
    /\ [](pc = "Exited" => lyrics # << >>)
    /\ [][(pc = "Ready" /\ lyrics = << >>) => pc' = "AudioOnly"]_vars
    /\ [][(pc = "AudioOnly" /\ pc' # "Interrupted") =>
             /\ ~emitted' /\ frame' = NoFrame
             /\ UNCHANGED << displayed_lines, current_line_index >>
             /\ pc' = IF busy' THEN "AudioOnly" ELSE "Finished" ]_vars

\* C16: when the user interrupts a running playback of the interactive
\* player (main.py), at any tick, the mixer's stop() has been called when
\* the loop is left, and neither the session summary nor a crash follows.
CancellationStopsAudio ==
    /\ []((pc = "Interrupted" /\ player = "main") => stop_called)
    /\ [][(pc = "Interrupted" /\ player = "main") =>
             (pc' # "Done" /\ pc' # "Crashed")]_vars

(***************************************************************************)
(* Properties of the frames                                                *)
(***************************************************************************)

\* The latest tick drew a frame, the exception of the progress bar apart or
\* not: the previous lines, the current line and the preview are printed
\* before the progress bar is computed.
FrameDrawn == pc \in {"Running", "Crashed"} /\ frame.drawn

\* The last n entries of s that come before its last entry, in order.
LastBeforeCurrent(s, n) ==
    LET k == IF n < Len(s) - 1 THEN n ELSE Len(s) - 1
    IN  IF s = << >> THEN << >> ELSE SubSeq(s, Len(s) - k, Len(s) - 1)

\* C17 as stated: in every frame, new-line frame or periodic refresh, the
\* previous lines are the up to 3 most recently surfaced lines other than
\* the current line, history[-1], in surfacing order.
PreviousExcludesCurrentInEveryFrame ==
    FrameDrawn => frame.previousLines = LastBeforeCurrent(displayed_lines, 3)

\* C17, amended: in every frame emitted because a line was just surfaced,
\* the previous lines are the up to 3 most recently surfaced lines other
\* than the current line, in surfacing order.
PreviousExcludesCurrent ==
    (FrameDrawn /\ should_update) =>
        frame.previousLines = LastBeforeCurrent(displayed_lines, 3)

\* A new-line frame with five lines surfaced: the three lines before the
\* current one are drawn as previous lines, the first line no longer is.
NewLineFrameWithFullHistory ==
    /\ FrameDrawn
    /\ should_update
    /\ Len(displayed_lines) = 5
    /\ frame.previousLines = SubSeq(displayed_lines, 2, 4)
    /\ frame.currentLine = << displayed_lines[5] >>

\* The smaller of two numbers.
Smaller(a, b) == IF a < b THEN a ELSE b

\* C18: on a frame emitted because a line was just surfaced, the previous
\* lines are the last min(3, len(history) - 1) entries of the history
\* before the just-added line; on a periodic refresh with no new line they
\* are the last min(3, len(history)) entries, the latest line included.
PreviousLinesByFrameKind ==
    FrameDrawn =>
        LET n == Len(displayed_lines)
        IN  IF should_update
            THEN frame.previousLines =
                     SubSeq(displayed_lines, n - Smaller(3, n - 1), n - 1)
            ELSE frame.previousLines =
                     SubSeq(displayed_lines, n - Smaller(3, n) + 1, n)

\* A periodic refresh with four or more lines surfaced: three previous
\* lines are drawn and the last of them is the line drawn as current.
RefreshFrameWithFullHistory ==
    /\ FrameDrawn
    /\ ~should_update
    /\ Len(displayed_lines) >= 4
    /\ Len(frame.previousLines) = 3
    /\ << frame.previousLines[3] >> = frame.currentLine

\* C19: in every frame the current line is the last entry of the history,
\* or none exactly when no line has been surfaced yet; the frame is a
\* new-line (highlighted) frame iff a line was surfaced on that same tick,
\* and a periodic refresh otherwise.
CurrentLineAndKind ==
    /\ [](FrameDrawn =>
            /\ frame.currentLine =
                  (IF displayed_lines = << >> THEN << >>
                   ELSE << displayed_lines[Len(displayed_lines)] >>)
            /\ (frame.currentLine = << >>) <=> (current_line_index = 0)
            /\ frame.isNewLine <=> should_update)
    /\ [][(PlayingTick /\ emitted') =>
             /\ frame'.drawn
             /\ frame'.isNewLine <=>
                    (current_line_index' = current_line_index + 1) ]_vars

\* A periodic refresh drawn before any line was surfaced: no current line.
FrameBeforeFirstLine ==
    /\ FrameDrawn
    /\ displayed_lines = << >>
    /\ frame.currentLine = << >>
    /\ ~frame.isNewLine

\* The time from the latest reading to the next pending line.
TimeToNext == lyrics[current_line_index + 1].time - current_time

\* C20: in every frame the preview is populated iff the cursor, after the
\* tick's advance, is below the number of lines and the time to the next
\* line is above 0 and below 10 s; when populated it is that line's text
\* and that time, and it is absent when the next line is already due.
UpcomingPreview ==
    FrameDrawn =>
        LET pending == current_line_index < Len(lyrics)
        IN  /\ (frame.upcoming # << >>) <=>
                  (pending /\ 0 < TimeToNext /\ TimeToNext < 1000)
            /\ frame.upcoming # << >> =>
                  frame.upcoming = << [text |-> lyrics[current_line_index + 1].text,
                                       time_until_next |-> TimeToNext] >>
            /\ (pending /\ TimeToNext <= 0) => frame.upcoming = << >>

\* A frame whose preview shows a line 9.75 s away, just inside the window.
PreviewJustInsideWindow ==
    /\ FrameDrawn
    /\ current_line_index < Len(lyrics)
    /\ TimeToNext = 975
    /\ frame.upcoming = << [text |-> <<"f">>, time_until_next |-> 975] >>

\* elapsed / total clamped to [0, 1], as a fraction, for total > 0.
ClampedRatio(elapsed, total) ==
    IF elapsed <= 0 THEN [num |-> 0, den |-> 1]
    ELSE IF elapsed >= total THEN [num |-> 1, den |-> 1]
    ELSE [num |-> elapsed, den |-> total]

SameFraction(p, q) == p.num * q.den = q.num * p.den

\* C21: in every frame the progress ratio is elapsed / (duration + 10)
\* clamped to [0, 1], duration being the time of the last line; the division
\* is never by zero and the filled width of the bar is within 0..50.
ProgressRatio ==
    FrameDrawn =>
        /\ frame.bar # << >>
        /\ lyrics[Len(lyrics)].time + 1000 # 0
        /\ SameFraction(frame.bar[1].progress,
                        ClampedRatio(current_time, lyrics[Len(lyrics)].time + 1000))
        /\ frame.bar[1].filled \in 0..50

(***************************************************************************)
(* The scenario of three lines                                             *)
(***************************************************************************)

\* The loop of the scenario has surfaced the first index lines, and its
\* latest reading, at which it drew its latest frame, is last.
ScenarioAt(index, last) ==
    /\ file = ScenarioFile
    /\ pc = "Running"
    /\ current_line_index = index
    /\ displayed_lines = [i \in 1..index |-> lyrics[i].text]
    /\ last_update_time = last
    /\ current_time = last

\* The tick draws a new-line frame whose current line is text.
SurfacesLine(text) ==
    /\ current_line_index' = current_line_index + 1
    /\ displayed_lines' = Append(displayed_lines, text)
    /\ emitted' /\ frame'.drawn /\ frame'.isNewLine
    /\ frame'.currentLine = << text >>

\* The tick draws a periodic refresh: a frame and no new line.
RefreshesOnly ==
    /\ UNCHANGED << current_line_index, displayed_lines >>
    /\ emitted' /\ frame'.drawn /\ ~frame'.isNewLine

\* C22: with the lines a at 0 s, b at 1 s and c at 3 s, the readings 0, 1,
\* 2, 3, 4 s on five playing ticks and the predicate False afterwards, the
\* run surfaces a at 0, b at 1, draws a periodic refresh at 2, surfaces c at
\* 3 and, after the tick at 4, becomes Finished with 3 of 3 lines shown.
EndToEndScenario ==
    [][ /\ (PlayingTick /\ ScenarioAt(0, 0) /\ current_time' = 0)
              => (SurfacesLine(<<"a">>) /\ ScenarioAt(1, 0)')
        /\ (PlayingTick /\ ScenarioAt(1, 0) /\ current_time' = 100)
              => (SurfacesLine(<<"b">>) /\ ScenarioAt(2, 100)')
        /\ (PlayingTick /\ ScenarioAt(2, 100) /\ current_time' = 200)
              => (RefreshesOnly /\ ScenarioAt(2, 200)')
        /\ (PlayingTick /\ ScenarioAt(2, 200) /\ current_time' = 300)
              => (SurfacesLine(<<"c">>) /\ ScenarioAt(3, 300)')
        /\ (PlayingTick /\ ScenarioAt(3, 300) /\ current_time' = 400)
              => (RefreshesOnly /\ ScenarioAt(3, 400)')
        /\ (StoppedTick /\ ScenarioAt(3, 400))
              => /\ pc' = "Finished"
                 /\ ~emitted'
                 /\ current_time' = 400
                 /\ last_update_time' = 400
                 /\ Len(displayed_lines') = 3 /\ Len(lyrics) = 3 ]_vars

\* The scenario has run to its end: Finished after the tick at 4 s, the
\* latest frame drawn at 4 s, three of three lines shown.
ScenarioFinished ==
    /\ file = ScenarioFile
    /\ pc = "Finished"
    /\ current_time = 400
    /\ last_update_time = 400
    /\ displayed_lines = << <<"a">>, <<"b">>, <<"c">> >>
    /\ current_line_index = Len(lyrics)

(***************************************************************************)
(* Properties of the timing tool and of its format                         *)
(***************************************************************************)

\* The lines of a timeline written as [MM:SS.CC]text with format_timestamp.
Serialized(timeline) ==
    [i \in 1..Len(timeline) |->
        << "[" >> \o FormatTimestamp(timeline[i].time, 0) \o << "]" >> \o timeline[i].text]

\* The (time, text) pairs of a timeline, in its order.
TimeTextPairs(timeline) ==
    [i \in 1..Len(timeline) |-> << timeline[i].time, timeline[i].text >>]

\* C23: for every parsed timeline, writing its lines in time order as
\* [MM:SS.CC]text and parsing that text again gives an equal sequence of
\* (time, text) pairs.  Stated here for the timelines whose times are all
\* non-negative, the ones format_timestamp does not clamp.
ParsingRoundTrip ==
    (pc # "Created" /\ exc = "none" /\ \A i \in 1..Len(lyrics) : lyrics[i].time >= 0) =>
        TimeTextPairs(SortByTime(ParseLines(Serialized(lyrics)))) = TimeTextPairs(lyrics)

\* Whether adjust_lrc_timing takes a line for a timestamped one: a "[" before
\* the first "]" and a timestamp parse_timestamp reads.
IsTimestamped(line) ==
    /\ Contains(line, "[") /\ Contains(line, "]")
    /\ Find(line, "]") > Find(line, "[")
    /\ ParseTimestamp(Slice(line, Find(line, "[") + 1, Find(line, "]"))).ok

\* The time of a timestamped line, in centiseconds, and its text.
TimeOfLine(line) == ParseTimestamp(Slice(line, Find(line, "[") + 1, Find(line, "]"))).val
TextOfLine(line) == SliceFrom(line, Find(line, "]") + 1)

\* The set of (time, text) pairs of the timestamped lines of a file.
TimedPairs(lines) ==
    { << TimeOfLine(lines[i]), TextOfLine(lines[i]) >> :
        i \in { j \in 1..Len(lines) : IsTimestamped(lines[j]) } }

\* C24: adjusting a file by +2.0 s and the result by -2.0 s gives back the
\* original set of (time, text) pairs of the timestamped lines.
OffsetRoundTrip ==
    offsets = << 200, 0 - 200 >> => TimedPairs(adjusted_lines) = TimedPairs(input_lines)

(***************************************************************************)
(* Properties of the session                                               *)
(***************************************************************************)

\* The positions of a session from the "Ready to play" prompt on.
PlayEntered == {"Ready", "Running", "AudioOnly", "Finished", "Done", "Crashed", "Interrupted"}

\* C25: play() is entered only when load_audio has answered True; when it
\* answers False the session goes back to the menu without an exception and
\* the playback loop has not run: nothing was surfaced and no frame drawn.
AudioGatesPlayback ==
    /\ pc \in PlayEntered => audio_loaded
    /\ pc = "AudioFailed" =>
          /\ ~audio_loaded
          /\ exc = "none"
          /\ current_line_index = 0 /\ displayed_lines = << >>
          /\ frame = NoFrame /\ ~emitted

\* Reached: load_audio has answered False after the lyrics were loaded.
AudioFailedWithLyrics == pc = "AudioFailed" /\ has_lyrics /\ ~audio_loaded

\* C26: on every playing tick at which pending lines are due, the first of
\* them, and only it, is surfaced with its own complete new-line frame, and
\* the loop goes on; the lines still due are met by the next ticks in the
\* same way, so k due lines take the next k playing ticks.
BacklogCatchUp ==
    [][ (PlayingTick /\ DueLines(current_line_index, current_time') # {}) =>
            /\ current_line_index' = current_line_index + 1
            /\ displayed_lines' =
                  Append(displayed_lines, lyrics[current_line_index + 1].text)
            /\ frame'.drawn /\ frame'.isNewLine
            /\ frame'.currentLine = << lyrics[current_line_index + 1].text >>
            /\ frame'.bar # << >>
            /\ pc' = "Running"
            /\ DueLines(current_line_index', current_time') =
                  DueLines(current_line_index, current_time') \ {current_line_index + 1}
      ]_vars

(***************************************************************************)
(* support/karaoke_universal.py: the single-song player                    *)
(***************************************************************************)

\* The try block of its load_lyrics (lines 62-76): the time of a timestamp
\* in centiseconds, or a failure.
UniversalParseTime(timestamp) ==
    LET parts == Split(timestamp, ":")
        failed == [ok |-> FALSE, val |-> 0]
    IN  IF Len(parts) < 2 THEN failed
        ELSE LET minutes == PyInt(parts[1])
                 sec_parts == Split(parts[2], ".")
                 seconds == PyInt(sec_parts[1])
             IN  IF ~minutes.ok \/ ~seconds.ok THEN failed
                 ELSE IF Len(sec_parts) > 1
                      THEN LET centiseconds == PyInt(sec_parts[2])
                           IN  IF ~centiseconds.ok THEN failed
                               ELSE [ok |-> TRUE,
                                     val |-> minutes.val * 6000 + seconds.val * 100
                                             + centiseconds.val]
                      ELSE [ok |-> TRUE, val |-> minutes.val * 6000 + seconds.val * 100]

\* The body of its "for line in lines" (lines 43-76).
UniversalParseLine(raw) ==
    LET line == Strip(raw)
    IN  IF line = << >> \/ ~Contains(line, "]") THEN << >>
        ELSE LET bracket_pos == Find(line, "]")
                 timestamp == Slice(line, 1, bracket_pos)
                 text == Strip(SliceFrom(line, bracket_pos + 1))
             IN  IF text = << >> THEN << >>
                 ELSE LET t == UniversalParseTime(timestamp)
                      IN  IF t.ok
                          THEN << [time |-> t.val, text |-> text, timestamp |-> timestamp] >>
                          ELSE << >>

\* self.lyrics of the single-song player after load_lyrics has read lines.
RECURSIVE UniversalParseLines(_)
UniversalParseLines(lines) ==
    IF lines = << >> THEN << >>
    ELSE UniversalParseLine(Head(lines)) \o UniversalParseLines(Tail(lines))

UniversalLyrics(lines) == SortByTime(UniversalParseLines(lines))

\* A single-song player that refreshes after more than half a second.
UniversalShouldEmitAfterPeriod(upd, now, last) == upd \/ now - last > 50

\* "if should_update or (current_time - last_update_time) >= 0.5" (line 169)
UniversalShouldEmit(upd, now, last) == upd \/ now - last >= 50

\* The screen of lines 181-213 for the history shown, the cursor index and
\* the reading now.
UniversalFrame(shown, upd, index, now) ==
    LET n == Len(shown)
        skip == IF upd THEN 1 ELSE 0
        num_prev == IF n - skip < 3 THEN n - skip ELSE 3
        start_idx == IF n - num_prev - skip > 0 THEN n - num_prev - skip ELSE 0
        total == lyrics[Len(lyrics)].time + 1000
        ratio == IF total > 0
                 THEN (IF now >= total THEN << 1, 1 >> ELSE << now, total >>)
                 ELSE (IF 0 - now >= 0 - total THEN << 1, 1 >>
                       ELSE << 0 - now, 0 - total >>)
        scaled == 50 * ratio[1]
        filled == IF scaled >= 0 THEN scaled \div ratio[2]
                  ELSE 0 - ((0 - scaled) \div ratio[2])
    IN  [drawn         |-> TRUE,
         previousLines |-> IF n = 0 THEN << >>
                           ELSE [i \in 1..(n - skip - start_idx) |-> shown[start_idx + i]],
         currentLine   |-> IF n = 0 THEN << >> ELSE << shown[n] >>,
         isNewLine     |-> upd /\ n > 0,
         upcoming      |-> IF index < Len(lyrics)
                              /\ lyrics[index + 1].time - now > 0
                              /\ lyrics[index + 1].time - now < 1000
                           THEN << [text |-> lyrics[index + 1].text,
                                    time_until_next |-> lyrics[index + 1].time - now] >>
                           ELSE << >>,
         bar           |-> IF total = 0 THEN << >>
                           ELSE << [progress |-> [num |-> ratio[1], den |-> ratio[2]],
                                    filled |-> filled] >>]

\* One iteration of its "while True" (lines 147-225) from the cursor index,
\* the history shown and the time last of the last screen, with the answers
\* b of get_busy() and now of get_current_time(): the values after it.
UniversalTick(b, index, shown, last, now) ==
    IF ~b
    THEN [pc |-> "Finished", index |-> index, shown |-> shown, last |-> last,
          emitted |-> FALSE, frame |-> NoFrame]
    ELSE LET due == index < Len(lyrics) /\ now >= lyrics[index + 1].time
             index2 == IF due THEN index + 1 ELSE index
             shown2 == IF due THEN shown \o << lyrics[index + 1].text >> ELSE shown
             emit == UniversalShouldEmit(due, now, last)
         IN  [pc |-> IF emit /\ lyrics[Len(lyrics)].time + 1000 = 0
                     THEN "Crashed" ELSE "Running",
              index |-> index2, shown |-> shown2,
              last |-> IF emit THEN now ELSE last,
              emitted |-> emit,
              frame |-> IF emit THEN UniversalFrame(shown2, due, index2, now)
                        ELSE NoFrame]

(***************************************************************************)
(* Properties of the two players                                           *)
(***************************************************************************)

\* The two load_lyrics build the same lines from the content of the file.
LoadsAgree ==
    (pc # "Created" /\ source = "ok" /\ exc = "none") => lyrics = UniversalLyrics(file)

\* On every iteration of the karaoke loop the single-song player's loop,
\* taken from the same cursor, history and last screen time with the same
\* answers of get_busy() and of the clock, ends in the same values and
\* draws the same screen.
LoopsAgree ==
    (pc = "Running" /\ pc' # "Interrupted") =>
        LET u == UniversalTick(busy', current_line_index, displayed_lines,
                               last_update_time, current_time')
        IN  /\ pc' = u.pc
            /\ current_line_index' = u.index
            /\ displayed_lines' = u.shown
            /\ last_update_time' = u.last
            /\ emitted' = u.emitted
            /\ frame' = u.frame

\* C27: the two players agree: their load_lyrics build the same line
\* sequence from every file content, and on every non-empty timeline, for
\* every sequence of clock readings and get_busy() answers, their loops,
\* which both start from (0, empty history, 0), go through the same
\* (index, history, last screen time) values and draw the same screens.
PlayersAgree == [](LoadsAgree) /\ [][LoopsAgree]_vars

\* Reached: the loop has drawn a periodic-refresh screen of a timeline of
\* three lines and a new-line screen is behind it.
PlayersAgreeOnRefresh ==
    /\ pc = "Running" /\ Len(lyrics) = 3 /\ current_line_index >= 2
    /\ frame # NoFrame /\ ~frame.isNewLine /\ frame.upcoming # << >>
    /\ lyrics = UniversalLyrics(file)

\* What precedes the first "[" of a line.
BeforeBracket(line) == Slice(line, 0, Find(line, "["))

\* C28: a run of adjust_lrc_timing gives as many lines as it read, in the
\* same order; a line without a parseable first [...] timestamp is given
\* unchanged; of an adjusted line only the first timestamp is rewritten:
\* what precedes its "[" and the text after its "]" are unchanged.
AdjustmentFrame ==
    [][ LET lines == ToolInput
            written == adjusted_lines'
        IN  /\ Len(written) = Len(lines)
            /\ \A i \in 1..Len(lines) :
                  IF IsTimestamped(lines[i])
                  THEN /\ IsTimestamped(written[i])
                       /\ BeforeBracket(written[i]) = BeforeBracket(lines[i])
                       /\ TextOfLine(written[i]) = TextOfLine(lines[i])
                  ELSE written[i] = lines[i]
      ]_vars

\* The timestamp between the first "[" and the first "]" of a line.
TimestampOfLine(line) == Slice(line, Find(line, "[") + 1, Find(line, "]"))

\* C29: for every offset, every timestamp a run of adjust_lrc_timing writes
\* denotes a time >= 0, a negative sum being written as 00:00.00, and any
\* two adjusted lines with t1 <= t2 in the input have t1' <= t2' in the
\* output.
ClampAndOrder ==
    [][ LET lines == ToolInput
            written == adjusted_lines'
            offset_seconds == offsets'[Len(offsets')]
            adjusted == {i \in 1..Len(lines) : IsTimestamped(lines[i])}
        IN  /\ \A i \in adjusted :
                  /\ IsTimestamped(written[i])
                  /\ TimeOfLine(written[i]) >= 0
                  /\ TimeOfLine(lines[i]) + offset_seconds < 0 =>
                        TimestampOfLine(written[i]) = <<"0","0",":","0","0",".","0","0">>
            /\ \A i, j \in adjusted :
                  TimeOfLine(lines[i]) <= TimeOfLine(lines[j]) =>
                      TimeOfLine(written[i]) <= TimeOfLine(written[j])
      ]_vars

\* Reached: a run 2 s earlier has written 00:00.00 for a line at 0.01 s and
\* 00:03.00 for a line at 5 s.
ClampedAndOrdered ==
    /\ offsets = << 0 - 200 >>
    /\ Len(input_lines) = 2
    /\ IsTimestamped(input_lines[1]) /\ TimeOfLine(input_lines[1]) = 1
    /\ IsTimestamped(input_lines[2]) /\ TimeOfLine(input_lines[2]) = 500
    /\ TimeOfLine(adjusted_lines[1]) = 0
    /\ TimeOfLine(adjusted_lines[2]) = 300

====
